---- MODULE Spec2Model ----
(***************************************************************************)
(* Model of the Comgate payment gateway client (ComgatePaymentModule).     *)
(*                                                                         *)
(* Two revisions of the class are in the repository: src/unnamed/part_000  *)
(* (constructor, _makeAPICall, methods, create, cancel, refund, status)    *)
(* and src/index.js (constructor, _makeAPICall, methods, status).  The     *)
(* variable impl says which of the two the client was built from.          *)
(*                                                                         *)
(* JavaScript values are records [t, b, n, s]; objects are functions from  *)
(* property names to values; strings are TLA+ strings.                     *)
(*                                                                         *)
(* Three specifications:                                                   *)
(*   Spec         construction, up to MaxCalls invocations of the public   *)
(*                operations in any interleaving with their settlement     *)
(*   SpecConfig   the constructor over every subset of its options         *)
(*   SpecGateway  one call in flight, answered by every response of the    *)
(*                model (status x Content-Type x body)                     *)
(***************************************************************************)
EXTENDS Integers, Sequences, FiniteSets, TLC

VARIABLES impl, options, env, phase, config, P, log, pending, last

vars == <<impl, options, env, phase, config, P, log, pending, last>>

\* the two revisions of the class, by file
Impls == {"index.js", "part_000"}

(***************************************************************************)
(* Bounds of the model.                                                    *)
(***************************************************************************)
\* invocations of public operations per behaviour
MaxCalls == 2

(***************************************************************************)
(* JavaScript values.                                                      *)
(***************************************************************************)
Undef == [t |-> "undefined", b |-> FALSE, n |-> 0, s |-> ""]

Null == [t |-> "null", b |-> FALSE, n |-> 0, s |-> ""]

Str(x) == [t |-> "string", b |-> FALSE, n |-> 0, s |-> x]

Num(x) == [t |-> "number", b |-> FALSE, n |-> x, s |-> ""]

Bool(x) == [t |-> "boolean", b |-> x, n |-> 0, s |-> ""]

\* ToBoolean: what `v || w` and `if (v)` test
Truthy(v) ==
  CASE v.t = "boolean" -> v.b
    [] v.t = "number" -> v.n # 0
    [] v.t = "string" -> v.s # ""
    [] OTHER -> FALSE

\* a || b
Or(a, b) == IF Truthy(a) THEN a ELSE b

\* String(v): v.toString() of a non-nullish value, and `${v}` of any value
ToStr(v) ==
  CASE v.t = "string" -> v.s
    [] v.t = "number" -> ToString(v.n)
    [] v.t = "boolean" -> (IF v.b THEN "true" ELSE "false")
    [] v.t = "null" -> "null"
    [] OTHER -> "undefined"

Nullish(v) == v.t \in {"undefined", "null"}

\* an object literal with no property
EmptyObj == [k \in {} |-> Undef]

\* o[k] / o.k : undefined when the property is absent
Get(o, k) == IF k \in DOMAIN o THEN o[k] ELSE Undef

\* { ...a, ...b }
Spread(a, b) ==
  [k \in (DOMAIN a) \cup (DOMAIN b) |-> IF k \in DOMAIN b THEN b[k] ELSE a[k]]

\* delete o[k]
Delete(o, k) == [j \in (DOMAIN o) \ {k} |-> o[j]]

\* an argument that is an object, and an argument that was not passed
Obj(o) == [defined |-> TRUE, obj |-> o]

NoObj == [defined |-> FALSE, obj |-> EmptyObj]

(***************************************************************************)
(* String helpers (String.prototype.includes, indexOf).                    *)
(***************************************************************************)
Includes(s, sub) ==
  \E i \in 1..(Len(s) - Len(sub) + 1) : SubSeq(s, i, i + Len(sub) - 1) = sub

\* least index >= from at which character c stands in s, 0 when there is none
RECURSIVE IndexOf(_, _, _)
IndexOf(s, c, from) ==
  IF from > Len(s) THEN 0
  ELSE IF SubSeq(s, from, from) = c THEN from
  ELSE IndexOf(s, c, from + 1)

(***************************************************************************)
(* Configuration: the constructor.                                         *)
(***************************************************************************)
\* constructor(config = {}): the default takes the place of a missing argument
ConfigArg(arg) == IF arg.defined THEN arg.obj ELSE EmptyObj

\* v.k where v is a primitive: a TypeError for undefined and null, else
\* undefined (no primitive of the model has a property of these names)
PropThrows(v) == Nullish(v)

\* the constructor of src/unnamed/part_000
ConstructorMain(arg, e) ==
  LET c == ConfigArg(arg)
      apiVersion == Or(Or(Get(c, "apiVersion"), Get(e, "API_VERSION")), Str("1.0"))
      base == Or(Or(Get(c, "gateUrl"), Get(e, "GATEWAY_URL")),
                 Str("https://payments.comgate.cz"))
  IN [threw |-> FALSE,
      config |->
        [secret |-> Or(Get(c, "secret"), Get(e, "MERCHANT_SECRET")),
         bankPublicKey |-> Or(Get(c, "bankPublicKey"), Get(e, "BANK_PUBLIC_KEY")),
         calbackUrl |-> Or(Get(c, "calbackUrl"), Get(e, "CALLBACK_URL")),
         useTest |-> Or(Or(Get(c, "useTest"), Get(e, "USE_TEST")), Bool(FALSE)),
         merchantId |-> Or(Get(c, "merchantId"), Get(e, "MERCHANT_ID")),
         apiVersion |-> apiVersion,
         currency |-> Or(Get(c, "currency"), Str("CZK")),
         language |-> Or(Get(c, "language"), Str("cs")),
         country |-> Or(Get(c, "country"), Str("CZ")),
         gateUrl |-> Str(ToStr(base) \o "/v" \o ToStr(apiVersion))]]

\* the constructor of src/index.js; payloadTemplate is an object of its own,
\* held here as the properties payloadTemplate.<name>
ConstructorLegacy(arg, e) ==
  LET c == ConfigArg(arg)
      apiVersion == Or(Or(Get(c, "apiVersion"), Get(e, "API_VERSION")), Str("1.0"))
      merchantId == Or(Get(c, "merchantId"), Get(e, "MERCHANT_ID"))
      calbackUrl == Or(Get(c, "calbackUrl"), Get(e, "CALLBACK_URL"))
  IN IF PropThrows(Get(c, "apiVersion"))
     THEN [threw |-> TRUE, config |-> EmptyObj]
     ELSE [threw |-> FALSE,
           config |->
             [k \in {"secret", "bankPublicKey", "calbackUrl", "useTest", "merchantId",
                     "apiVersion", "currency", "language", "country", "gateUrl",
                     "payloadTemplate.merchantId", "payloadTemplate.payOperation",
                     "payloadTemplate.payMethod", "payloadTemplate.currency",
                     "payloadTemplate.language", "payloadTemplate.returnUrl",
                     "payloadTemplate.returnMethod"} |->
               CASE k = "secret" -> Or(Get(c, "secret"), Get(e, "MERCHANT_SECRET"))
                 [] k = "bankPublicKey" ->
                      Or(Get(c, "bankPublicKey"), Get(e, "BANK_PUBLIC_KEY"))
                 [] k = "calbackUrl" -> calbackUrl
                 [] k = "useTest" ->
                      Or(Or(Get(c, "useTest"), Get(e, "USE_TEST")), Bool(FALSE))
                 [] k = "merchantId" -> merchantId
                 [] k = "apiVersion" -> apiVersion
                 [] k = "currency" -> Or(Undef, Str("CZK"))
                 [] k = "language" -> Or(Undef, Str("cs"))
                 [] k = "country" -> Or(Undef, Str("CZ"))
                 [] k = "gateUrl" ->
                      Str(ToStr(Or(Get(c, "gateUrl"), Get(e, "GATEWAY_URL")))
                          \o "/v" \o ToStr(apiVersion))
                 [] k = "payloadTemplate.merchantId" -> merchantId
                 [] k = "payloadTemplate.payOperation" -> Str("payment")
                 [] k = "payloadTemplate.payMethod" -> Str("card")
                 [] k = "payloadTemplate.currency" -> Str("CZK")
                 [] k = "payloadTemplate.language" -> Str("CZ")
                 [] k = "payloadTemplate.returnUrl" -> calbackUrl
                 [] OTHER -> Str("POST")]]

\* new ComgatePaymentModule(arg) under environment e
Construct(i, arg, e) ==
  IF i = "part_000" THEN ConstructorMain(arg, e) ELSE ConstructorLegacy(arg, e)

(***************************************************************************)
(* _makeAPICall, request side: the form and the target URL.                *)
(***************************************************************************)
\* part_000: formData.append(key, (data[key] || "").toString())
FormValueMain(v) == Str(ToStr(Or(v, Str(""))))

\* index.js: formData.append(key, data[key] || '')
FormValueLegacy(v) == Or(v, Str(""))

FormValue(i, v) == IF i = "part_000" THEN FormValueMain(v) ELSE FormValueLegacy(v)

\* the fields appended to the FormData, as (name, value) pairs
FormFields(i, data) ==
  {<<"type", Str("json")>>} \cup {<<k, FormValue(i, data[k])>> : k \in DOMAIN data}

\* the request handed to fetch: fetch(`${this.config.gateUrl}/${path}`, params)
MakeRequest(i, cfg, path, data, method) ==
  [url |-> ToStr(Get(cfg, "gateUrl")) \o "/" \o path,
   method |-> method,
   hasBody |-> data.defined,
   form |-> IF data.defined THEN FormFields(i, data.obj) ELSE {},
   accept |-> IF data.defined /\ i = "part_000" THEN Str("application/json") ELSE Undef]

NoRequest ==
  [url |-> "", method |-> "", hasBody |-> FALSE, form |-> {}, accept |-> Undef]

(***************************************************************************)
(* The public operations: what each passes to _makeAPICall, what it does   *)
(* to the caller's params object, and whether it throws before the call.   *)
(***************************************************************************)
\* cfg is this.config and params the caller's object as the operation leaves them
Call(cfg, path, data, params) ==
  [threw |-> FALSE, path |-> path, data |-> Obj(data), params |-> params, config |-> cfg]

Threw(cfg, params) ==
  [threw |-> TRUE, path |-> "", data |-> NoObj, params |-> params, config |-> cfg]

methods(cfg) ==
  Call(cfg, "methods",
       [merchant |-> Get(cfg, "merchantId"),
        secret |-> Get(cfg, "secret"),
        lang |-> Get(cfg, "language"),
        curr |-> Get(cfg, "currency"),
        country |-> Get(cfg, "country")],
       NoObj)

create(cfg, params) ==
  Call(cfg, "create",
       Spread([merchant |-> Get(cfg, "merchantId"),
               test |-> Get(cfg, "useTest"),
               country |-> Get(cfg, "country"),
               curr |-> Get(cfg, "currency"),
               secret |-> Get(cfg, "secret"),
               lang |-> Get(cfg, "language"),
               method |-> Str("ALL")],
              params.obj),
       params)

cancel(cfg, transactionId) ==
  Call(cfg, "cancel",
       [merchant |-> Get(cfg, "merchantId"),
        transId |-> transactionId,
        secret |-> Get(cfg, "secret")],
       NoObj)

\* refund as it would be if it kept the string of useTest in this.config
refundStoringTest(cfg, transactionId, params) ==
  IF ~params.defined
  THEN Threw(cfg, params)
  ELSE LET amount == Get(params.obj, "amount")
           test == Str(ToStr(Get(cfg, "useTest")))
           stored == Spread(cfg, [useTest |-> test])
       IN Call(stored, "refund",
               Spread([merchant |-> Get(cfg, "merchantId"),
                       transId |-> transactionId,
                       secret |-> Get(cfg, "secret"),
                       test |-> test,
                       curr |-> Get(cfg, "currency"),
                       amount |-> Str(ToStr(Or(amount, Str(""))))],
                      Delete(params.obj, "amount")),
               Obj(Delete(params.obj, "amount")))

\* what `delete params.amount` leaves of the caller's object
RefundParams(params) == Obj(Delete(params.obj, "amount"))

refund(cfg, transactionId, params) ==
  IF ~params.defined
  THEN Threw(cfg, params)   \* const { amount } = params, of undefined
  ELSE LET amount == Get(params.obj, "amount")
           left == RefundParams(params)
       IN Call(cfg, "refund",
               Spread([merchant |-> Get(cfg, "merchantId"),
                       transId |-> transactionId,
                       secret |-> Get(cfg, "secret"),
                       test |-> Str(ToStr(Get(cfg, "useTest"))),
                       curr |-> Get(cfg, "currency"),
                       amount |-> Str(ToStr(Or(amount, Str(""))))],
                      left.obj),
               left)

\* part_000 posts to status, index.js to methods
StatusPath(i) == IF i = "part_000" THEN "status" ELSE "methods"

status(i, cfg, transactionId) ==
  Call(cfg, StatusPath(i),
       [merchant |-> Get(cfg, "merchantId"),
        transId |-> transactionId,
        secret |-> Get(cfg, "secret")],
       NoObj)

(***************************************************************************)
(* Library conversions used on the response body.                          *)
(* new URLSearchParams(text): the list of (name, value) entries.           *)
(* Percent-decoding is left out; no body of the model holds a "%".         *)
(***************************************************************************)
Tail1(s, i) == IF i > Len(s) THEN "" ELSE SubSeq(s, i, Len(s))

Head1(s, i) == IF i < 1 THEN "" ELSE SubSeq(s, 1, i)

RECURSIVE SplitOn(_, _)
SplitOn(s, c) ==
  LET i == IndexOf(s, c, 1)
  IN IF i = 0 THEN <<s>> ELSE <<Head1(s, i - 1)>> \o SplitOn(Tail1(s, i + 1), c)

RECURSIVE PlusToSpace(_)
PlusToSpace(s) ==
  IF s = "" THEN ""
  ELSE (IF SubSeq(s, 1, 1) = "+" THEN " " ELSE SubSeq(s, 1, 1)) \o PlusToSpace(Tail1(s, 2))

URLSearchParams(text) ==
  LET t == IF text # "" /\ SubSeq(text, 1, 1) = "?" THEN Tail1(text, 2) ELSE text
      segs == SelectSeq(SplitOn(t, "&"), LAMBDA x : x # "")
      entry(seg) ==
        LET i == IndexOf(seg, "=", 1)
        IN IF i = 0 THEN <<PlusToSpace(seg), "">>
           ELSE <<PlusToSpace(Head1(seg, i - 1)), PlusToSpace(Tail1(seg, i + 1))>>
  IN [j \in 1..Len(segs) |-> entry(segs[j])]

(***************************************************************************)
(* JSON.parse on the texts of the model: an object of scalar members, or a *)
(* scalar; no white space, no escapes.  Any other text is a syntax error.  *)
(***************************************************************************)
JObject(o) == [jt |-> "object", obj |-> o, v |-> Undef]

JScalar(x) == [jt |-> "scalar", obj |-> EmptyObj, v |-> x]

Digits == {"0", "1", "2", "3", "4", "5", "6", "7", "8", "9"}

DigitValue(c) ==
  CASE c = "0" -> 0 [] c = "1" -> 1 [] c = "2" -> 2 [] c = "3" -> 3 [] c = "4" -> 4
    [] c = "5" -> 5 [] c = "6" -> 6 [] c = "7" -> 7 [] c = "8" -> 8 [] OTHER -> 9

IsNumber(s) ==
  /\ s # ""
  /\ \A i \in 1..Len(s) : SubSeq(s, i, i) \in Digits
  /\ Len(s) > 1 => SubSeq(s, 1, 1) # "0"

RECURSIVE NumberValue(_)
NumberValue(s) ==
  IF s = "" THEN 0
  ELSE 10 * NumberValue(Head1(s, Len(s) - 1)) + DigitValue(SubSeq(s, Len(s), Len(s)))

JFail == [ok |-> FALSE, v |-> Undef, next |-> 0]

\* the scalar that starts at position i of s, and the position after it
ScalarAt(s, i) ==
  IF i > Len(s) THEN JFail
  ELSE IF SubSeq(s, i, i) = "\""
  THEN LET j == IndexOf(s, "\"", i + 1)
       IN IF j = 0 THEN JFail
          ELSE [ok |-> TRUE, v |-> Str(SubSeq(s, i + 1, j - 1)), next |-> j + 1]
  ELSE LET c == IndexOf(s, ",", i)
           b == IndexOf(s, "}", i)
           e == IF c = 0 /\ b = 0 THEN Len(s) + 1
                 ELSE IF c = 0 THEN b
                 ELSE IF b = 0 THEN c
                 ELSE IF c < b THEN c ELSE b
           tok == SubSeq(s, i, e - 1)
       IN CASE tok = "true" -> [ok |-> TRUE, v |-> Bool(TRUE), next |-> e]
            [] tok = "false" -> [ok |-> TRUE, v |-> Bool(FALSE), next |-> e]
            [] tok = "null" -> [ok |-> TRUE, v |-> Null, next |-> e]
            [] IsNumber(tok) -> [ok |-> TRUE, v |-> Num(NumberValue(tok)), next |-> e]
            [] OTHER -> JFail

\* the members of an object from position i on, added to acc
RECURSIVE MembersAt(_, _, _)
MembersAt(s, i, acc) ==
  LET k == ScalarAt(s, i)
  IN IF ~k.ok \/ k.v.t # "string" \/ k.next > Len(s) \/ SubSeq(s, k.next, k.next) # ":"
     THEN [ok |-> FALSE, val |-> JScalar(Undef)]
     ELSE LET m == ScalarAt(s, k.next + 1)
              o == Spread(acc, [x \in {k.v.s} |-> m.v])
          IN IF ~m.ok \/ m.next > Len(s) THEN [ok |-> FALSE, val |-> JScalar(Undef)]
             ELSE IF SubSeq(s, m.next, m.next) = ","
             THEN MembersAt(s, m.next + 1, o)
             ELSE IF SubSeq(s, m.next, m.next) = "}" /\ m.next = Len(s)
             THEN [ok |-> TRUE, val |-> JObject(o)]
             ELSE [ok |-> FALSE, val |-> JScalar(Undef)]

JSONParse(s) ==
  IF s = "{}" THEN [ok |-> TRUE, val |-> JObject(EmptyObj)]
  ELSE IF s # "" /\ SubSeq(s, 1, 1) = "{" THEN MembersAt(s, 2, EmptyObj)
  ELSE LET r == ScalarAt(s, 1)
       IN IF r.ok /\ r.next = Len(s) + 1 THEN [ok |-> TRUE, val |-> JScalar(r.v)]
          ELSE [ok |-> FALSE, val |-> JScalar(Undef)]

\* JSON.stringify of a scalar (no character of the model's strings is escaped)
JSONStringify(x) ==
  IF x.t = "string" THEN "\"" \o x.s \o "\"" ELSE ToStr(x)

(***************************************************************************)
(* Errors and outcomes.                                                    *)
(***************************************************************************)
\* super(message): Error.prototype.message is "" when message is undefined
ErrorMessage(m) == IF m.t = "undefined" THEN "" ELSE ToStr(m)

\* class APIError: the properties a caller reads from the instance; the
\* constructor hands message to Error and sets name, nothing else
APIError(message, statusArg) ==
  [name |-> "APIError", message |-> ErrorMessage(message), status |-> Undef, code |-> Undef]

\* class PaymentError
PaymentError(message, statusArg) ==
  [name |-> "PaymentError", message |-> ErrorMessage(message), status |-> Undef,
   code |-> Undef]

\* errors raised by the runtime and by node-fetch
TypeError(message) ==
  [name |-> "TypeError", message |-> message, status |-> Undef, code |-> Undef]

FetchError(message) ==
  [name |-> "FetchError", message |-> message, status |-> Undef, code |-> Undef]

NoError == [name |-> "", message |-> "", status |-> Undef, code |-> Undef]

NoValue == [vt |-> "none", json |-> JScalar(Undef), obj |-> EmptyObj, text |-> ""]

ValueJSON(j) == [vt |-> "json", json |-> j, obj |-> EmptyObj, text |-> ""]

ValueObject(o) == [vt |-> "object", json |-> JScalar(Undef), obj |-> o, text |-> ""]

ValueText(x) == [vt |-> "text", json |-> JScalar(Undef), obj |-> EmptyObj, text |-> x]

Resolved(v) == [kind |-> "resolved", err |-> NoError, value |-> v]

Rejected(e) == [kind |-> "rejected", err |-> e, value |-> NoValue]

\* a synchronous throw out of the operation itself
Thrown(e) == [kind |-> "thrown", err |-> e, value |-> NoValue]

NoOutcome == [kind |-> "none", err |-> NoError, value |-> NoValue]

(***************************************************************************)
(* _makeAPICall, response side.                                            *)
(***************************************************************************)
\* res.ok
Ok(res) == res.status >= 200 /\ res.status <= 299

\* urlParams.forEach((value, key) => { out[key] = value }) over the first n entries
RECURSIVE ForEachInto(_, _)
ForEachInto(entries, n) ==
  IF n = 0 THEN EmptyObj
  ELSE Spread(ForEachInto(entries, n - 1), [k \in {entries[n][1]} |-> Str(entries[n][2])])

\* if (!res.ok) return res.text().then(errorBody => reject(new APIError(...)))
HandleFailure(res) ==
  IF ~res.readable THEN Rejected(FetchError("body"))
  ELSE Rejected(APIError(Str(res.body), Num(res.status)))

\* the JSON branch as it would be if it tested `json.error !== undefined`
HandleJSONAnyError(res) ==
  IF ~res.readable THEN Rejected(FetchError("body"))
  ELSE LET p == JSONParse(res.body)
           json == p.val
           error == IF json.jt = "object" THEN Get(json.obj, "error") ELSE Undef
       IN IF ~p.ok THEN Rejected(FetchError("invalid-json"))
          ELSE IF json.jt = "scalar" /\ PropThrows(json.v)
          THEN Rejected(TypeError("Cannot read property 'error' of null"))
          ELSE IF error # Undef
          THEN Rejected(APIError(Str(JSONStringify(error)), Num(res.status)))
          ELSE Resolved(ValueJSON(json))

\* res.json().then(json => ...): res.json() rejects on an unreadable body and
\* on a syntax error; json.error of null is a TypeError inside the callback
HandleJSON(res) ==
  IF ~res.readable THEN Rejected(FetchError("body"))
  ELSE LET p == JSONParse(res.body)
           json == p.val
           error == IF json.jt = "object" THEN Get(json.obj, "error") ELSE Undef
       IN IF ~p.ok THEN Rejected(FetchError("invalid-json"))
          ELSE IF json.jt = "scalar" /\ PropThrows(json.v)
          THEN Rejected(TypeError("Cannot read property 'error' of null"))
          ELSE IF Truthy(error)
          THEN Rejected(APIError(Str(JSONStringify(error)), Num(res.status)))
          ELSE Resolved(ValueJSON(json))

\* the text branch as it would be without `delete out.message`
HandleTextKeepingMessage(res) ==
  IF ~res.readable THEN Rejected(FetchError("body"))
  ELSE IF \/ Includes(res.contentType.s, "form-urlencoded")
          \/ Includes(res.contentType.s, "text/html")
  THEN LET urlParams == URLSearchParams(res.body)
           out == ForEachInto(urlParams, Len(urlParams))
       IN IF Get(out, "code") # Str("0")
          THEN Rejected(PaymentError(Get(out, "message"), Get(out, "code")))
          ELSE Resolved(ValueObject(Delete(out, "code")))
  ELSE Resolved(ValueText(res.body))

\* res.text().then(payload => ...)
HandleText(res) ==
  IF ~res.readable THEN Rejected(FetchError("body"))
  ELSE IF \/ Includes(res.contentType.s, "form-urlencoded")
          \/ Includes(res.contentType.s, "text/html")
  THEN LET urlParams == URLSearchParams(res.body)
           out == ForEachInto(urlParams, Len(urlParams))
       IN IF Get(out, "code") # Str("0")
          THEN Rejected(PaymentError(Get(out, "message"), Get(out, "code")))
          ELSE Resolved(ValueObject(Delete(Delete(out, "code"), "message")))
  ELSE Resolved(ValueText(res.body))

\* part_000: the callback given to fetch(...).then.  contentType.includes of
\* a missing header (null) is a TypeError raised before res.ok is looked at.
\* No statement of the try block throws synchronously (res.json() and
\* res.text() return promises), so its catch clause takes no part.
HandleMain(res) ==
  IF Nullish(res.contentType)
  THEN Rejected(TypeError("Cannot read property 'includes' of null"))
  ELSE LET isJSON == Includes(res.contentType.s, "application/json")
       IN IF ~Ok(res) THEN HandleFailure(res)
          ELSE IF isJSON THEN HandleJSON(res)
          ELSE HandleText(res)

\* index.js: every body of a successful response is read as JSON
HandleLegacy(res) == IF ~Ok(res) THEN HandleFailure(res) ELSE HandleJSON(res)

Handle(i, res) == IF i = "part_000" THEN HandleMain(res) ELSE HandleLegacy(res)

\* node-fetch takes absolute URLs only
IsAbsolute(url) ==
  \/ Len(url) >= 7 /\ SubSeq(url, 1, 7) = "http://"
  \/ Len(url) >= 8 /\ SubSeq(url, 1, 8) = "https://"

\* fetch() itself rejects: a URL that is not absolute, or a network failure
FetchRejection(req) ==
  IF IsAbsolute(req.url) THEN Rejected(FetchError("system"))
  ELSE Rejected(TypeError("Only absolute URLs are supported"))

(***************************************************************************)
(* The inputs of the model: constructor options, environment, the caller's *)
(* params object, transaction ids, and what the gateway may answer.        *)
(***************************************************************************)
\* every option the constructors read, with a truthy value, and callbackUrl,
\* the name the documentation gives to calbackUrl
FullOptions ==
  [secret |-> Str("s3"), bankPublicKey |-> Str("pk"), calbackUrl |-> Str("http://cb1"),
   callbackUrl |-> Str("http://cb2"), useTest |-> Bool(TRUE), merchantId |-> Str("A"),
   apiVersion |-> Str("2.0"), currency |-> Str("EUR"), language |-> Str("en"),
   country |-> Str("SK"), gateUrl |-> Str("http://gw.opt")]

FullEnv ==
  [MERCHANT_SECRET |-> Str("es"), BANK_PUBLIC_KEY |-> Str("epk"),
   CALLBACK_URL |-> Str("http://ecb"), USE_TEST |-> Str("false"),
   MERCHANT_ID |-> Str("B"), API_VERSION |-> Str("3.0"),
   GATEWAY_URL |-> Str("http://gw.env")]

Restrict(o, S) == [k \in S |-> o[k]]

\* options with falsy values
FalsyOptions ==
  [secret |-> Str(""), useTest |-> Bool(FALSE), merchantId |-> Null,
   apiVersion |-> Num(0), currency |-> Str(""), gateUrl |-> Str("")]

\* the options and environments the constructor is checked on
ConfigOptionChoices ==
  {NoObj, Obj(FalsyOptions)} \cup {Obj(Restrict(FullOptions, S)) : S \in SUBSET DOMAIN FullOptions}

ConfigEnvChoices == {EmptyObj, FullEnv, Restrict(FullEnv, {"MERCHANT_ID", "GATEWAY_URL"})}

\* the clients the operations are checked on
OptionChoices ==
  {NoObj,
   Obj(Restrict(FullOptions, {"merchantId", "secret", "useTest", "apiVersion", "gateUrl"}))}

EnvChoices == {Restrict(FullEnv, {"MERCHANT_ID", "GATEWAY_URL"})}

ParamChoices ==
  {[amount |-> Num(100), refId |-> Str("R1")],
   [amount |-> Num(0), price |-> Num(0), prepareOnly |-> Bool(FALSE), label |-> Null]}

TransIds == {Str("T1")}

Statuses == {200, 299, 300, 500}

ContentTypes ==
  {Str("application/json"), Str("application/json; charset=utf-8"),
   Str("application/x-www-form-urlencoded"), Str("text/html; charset=UTF-8"),
   Str("text/plain"), Null}

Bodies ==
  {"code=0&message=ok&foo=bar", "code=1&message=failed", "foo=bar",
   "code=1&code=0&a=b+c", "{\"error\":\"X\"}",
   "{\"error\":0,\"code\":1,\"message\":\"m\"}", "{\"code\":0", "null",
   "<html>oops</html>", ""}

\* a response: status line, Content-Type header (null when missing), and the
\* body text, which the body stream may fail to deliver
Response(st, ct, body) == [status |-> st, contentType |-> ct, readable |-> TRUE, body |-> body]

Responses ==
  [status : Statuses, contentType : ContentTypes, readable : {TRUE}, body : Bodies]
  \cup [status : Statuses, contentType : ContentTypes, readable : {FALSE}, body : {""}]

\* one response for each way through the handlers
SampleResponses ==
  {Response(200, Str("application/json"), "{\"error\":\"X\"}"),
   Response(200, Str("application/json"), "{\"code\":0"),
   Response(200, Str("application/x-www-form-urlencoded"), "code=0&message=ok&foo=bar"),
   Response(200, Str("text/html; charset=UTF-8"), "code=1&message=failed"),
   Response(500, Null, "<html>oops</html>")}

NoResponse == [status |-> 0, contentType |-> Null, readable |-> FALSE, body |-> ""]

(***************************************************************************)
(* The state machine.                                                      *)
(*   phase    "new" before the constructor ran, then "ready" or "threw"    *)
(*   config   this.config                                                  *)
(*   P        the caller's params object, passed by reference              *)
(*   log      one entry per invocation of a public operation: its inputs, *)
(*            the mapping it gave to _makeAPICall and the request sent     *)
(*   pending  the invocations whose promise is not settled                 *)
(*   last     how the latest invocation to end ended                       *)
(***************************************************************************)
Init ==
  /\ impl \in Impls
  /\ options \in OptionChoices
  /\ env \in EnvChoices
  /\ phase = "new"
  /\ config = EmptyObj
  /\ P \in ParamChoices
  /\ log = <<>>
  /\ pending = {}
  /\ last = [out |-> NoOutcome, res |-> NoResponse]

Constructor ==
  /\ phase = "new"
  /\ LET r == Construct(impl, options, env)
     IN /\ phase' = IF r.threw THEN "threw" ELSE "ready"
        /\ config' = r.config
  /\ UNCHANGED <<impl, options, env, P, log, pending, last>>

\* one invocation: op(transId, arg) ran to its return (or throw) with result r
Invoked(op, transId, arg, r) ==
  /\ phase = "ready"
  /\ Len(log) < MaxCalls
  /\ config' = r.config
  /\ P' = IF arg = "P" THEN r.params.obj ELSE P
  /\ LET req == IF r.threw THEN NoRequest
                ELSE MakeRequest(impl, config, r.path, r.data, "POST")
     IN log' = Append(log, [op |-> op, transId |-> transId, arg |-> arg,
                            threw |-> r.threw, data |-> r.data.obj, req |-> req])
  /\ pending' = IF r.threw THEN pending ELSE pending \cup {Len(log) + 1}
  /\ last' = IF r.threw
             THEN [out |-> Thrown(TypeError("Cannot destructure property 'amount'")),
                   res |-> NoResponse]
             ELSE last
  /\ UNCHANGED <<impl, options, env, phase>>

\* the argument named arg: the caller's object, or nothing
Arg(arg) == IF arg = "P" THEN Obj(P) ELSE NoObj

InvokeMethods == Invoked("methods", Undef, "none", methods(config))

InvokeCreate ==
  /\ impl = "part_000"
  /\ \E arg \in {"P", "none"} : Invoked("create", Undef, arg, create(config, Arg(arg)))

InvokeCancel ==
  /\ impl = "part_000"
  /\ \E t \in TransIds : Invoked("cancel", t, "none", cancel(config, t))

InvokeRefund ==
  /\ impl = "part_000"
  /\ \E t \in TransIds, arg \in {"P", "none"} :
       Invoked("refund", t, arg, refund(config, t, Arg(arg)))

InvokeStatus == \E t \in TransIds : Invoked("status", t, "none", status(impl, config, t))

\* fetch() rejects
FetchRejects ==
  \E i \in pending :
    /\ pending' = pending \ {i}
    /\ last' = [out |-> FetchRejection(log[i].req), res |-> NoResponse]
    /\ UNCHANGED <<impl, options, env, phase, config, P, log>>

\* fetch() resolves with a response of RS and the callback of _makeAPICall runs
RespondFrom(RS) ==
  \E i \in pending :
    /\ IsAbsolute(log[i].req.url)
    /\ \E res \in RS : last' = [out |-> Handle(impl, res), res |-> res]
    /\ pending' = pending \ {i}
    /\ UNCHANGED <<impl, options, env, phase, config, P, log>>

RespondSample == RespondFrom(SampleResponses)

Respond == RespondFrom(Responses)

\* the client through construction, invocations and their settlement
Next ==
  \/ Constructor
  \/ InvokeMethods
  \/ InvokeCreate
  \/ InvokeCancel
  \/ InvokeRefund
  \/ InvokeStatus
  \/ FetchRejects
  \/ RespondSample

Spec == Init /\ [][Next]_vars

\* the constructor alone, over the wider options and environments
InitConfig ==
  /\ impl \in Impls
  /\ options \in ConfigOptionChoices
  /\ env \in ConfigEnvChoices
  /\ phase = "new"
  /\ config = EmptyObj
  /\ P \in ParamChoices
  /\ log = <<>>
  /\ pending = {}
  /\ last = [out |-> NoOutcome, res |-> NoResponse]

NextConfig == Constructor

SpecConfig == InitConfig /\ [][NextConfig]_vars

\* one status call in flight on a constructed client, answered by any response
InitPending ==
  /\ impl \in Impls
  /\ options = Obj(Restrict(FullOptions, {"merchantId", "secret", "useTest", "apiVersion", "gateUrl"}))
  /\ env \in EnvChoices
  /\ phase = "ready"
  /\ config = Construct(impl, options, env).config
  /\ P \in ParamChoices
  /\ \E t \in TransIds :
       LET r == status(impl, config, t)
       IN log = <<[op |-> "status", transId |-> t, arg |-> "none", threw |-> FALSE,
                   data |-> r.data.obj,
                   req |-> MakeRequest(impl, config, r.path, r.data, "POST")]>>
  /\ pending = {1}
  /\ last = [out |-> NoOutcome, res |-> NoResponse]

NextGateway == FetchRejects \/ Respond

SpecGateway == InitPending /\ [][NextGateway]_vars

(***************************************************************************)
(* Claims about the response side of _makeAPICall (SpecGateway).           *)
(***************************************************************************)
\* the latest invocation ended on a response whose body was delivered
Answered == last.res \in Responses /\ last.res.readable

HasType(res, sub) == ~Nullish(res.contentType) /\ Includes(res.contentType.s, sub)

\* the value of the last entry named k, undefined when there is none
LastValue(entries, k) ==
  LET at == {j \in 1..Len(entries) : entries[j][1] = k}
  IN IF at = {} THEN Undef
     ELSE Str(entries[CHOOSE j \in at : \A m \in at : m <= j][2])

EntryNames(entries) == {entries[j][1] : j \in 1..Len(entries)}

\* C1: a response with a status outside 200-299 makes the call reject with an
\* APIError whose message is the body text, whatever the Content-Type header
\* is, a missing header included.
C1_NonSuccessRejectsAPIError ==
  (Answered /\ (last.res.status < 200 \/ last.res.status > 299))
    => /\ last.out.kind = "rejected"
       /\ last.out.err.name = "APIError"
       /\ last.out.err.message = last.res.body

\* the body of a successful response cannot be read, or is read as JSON and
\* is not JSON
BodyFails(i, res) ==
  \/ ~res.readable
  \/ /\ (i = "index.js" \/ HasType(res, "application/json"))
     /\ ~JSONParse(res.body).ok

\* C2: with a success status, a failure to read or parse the body makes the
\* call reject with an APIError and with no other kind of error.
C2_ParseFailureIsAPIError ==
  (/\ impl = "part_000"
   /\ last.res \in Responses
   /\ last.res.status >= 200 /\ last.res.status <= 299
   /\ ~Nullish(last.res.contentType)
   /\ BodyFails(impl, last.res))
    => (last.out.kind = "rejected" /\ last.out.err.name = "APIError")

\* C5: a success response of type form-urlencoded or text/html (not JSON)
\* resolves exactly when the parsed code is "0", with the parsed mapping less
\* code and message; otherwise it rejects with a PaymentError carrying the
\* mapping's message.
C5_UrlEncodedCodeDecides ==
  (/\ impl = "part_000"
   /\ Answered
   /\ last.res.status >= 200 /\ last.res.status <= 299
   /\ HasType(last.res, "form-urlencoded") \/ HasType(last.res, "text/html")
   /\ ~HasType(last.res, "application/json"))
    => LET entries == URLSearchParams(last.res.body)
           message == LastValue(entries, "message")
       IN IF LastValue(entries, "code") = Str("0")
          THEN /\ last.out.kind = "resolved"
               /\ last.out.value.vt = "object"
               /\ last.out.value.obj =
                    [k \in EntryNames(entries) \ {"code", "message"} |->
                       LastValue(entries, k)]
          ELSE /\ last.out.kind = "rejected"
               /\ last.out.err.name = "PaymentError"
               /\ last.out.err.message = (IF message = Undef THEN "" ELSE message.s)

\* code=0&message=ok&foo=bar resolved with { foo: "bar" }
C5_Witness ==
  /\ impl = "part_000"
  /\ last.res = Response(200, Str("application/x-www-form-urlencoded"),
                         "code=0&message=ok&foo=bar")
  /\ last.out.kind = "resolved"
  /\ last.out.value.obj = [foo |-> Str("bar")]

C7_ErrorsCarryStatusOrCode ==
  (impl = "part_000" /\ Answered /\ last.out.kind = "rejected")
    => /\ last.out.err.name = "APIError" => last.out.err.status = Num(last.res.status)
       /\ last.out.err.name = "PaymentError" =>
            last.out.err.code = LastValue(URLSearchParams(last.res.body), "code")

(***************************************************************************)
(* Claims about the constructor (SpecConfig).                              *)
(***************************************************************************)
\* option k if truthy, else environment name e if truthy, else default d
Precedence(k, e, d) == Or(Or(Get(ConfigArg(options), k), Get(env, e)), d)

\* C8: construction succeeds for every options mapping and every field is the
\* explicit option if truthy, else the environment value if truthy, else the
\* built-in default (apiVersion, currency, language, country and the base of
\* gateUrl have one), else absent; gateUrl is base + "/v" + apiVersion.
C8_ConfigResolution ==
  phase # "new" =>
    /\ phase = "ready"
    /\ Get(config, "secret") = Precedence("secret", "MERCHANT_SECRET", Undef)
    /\ Get(config, "bankPublicKey") = Precedence("bankPublicKey", "BANK_PUBLIC_KEY", Undef)
    /\ Get(config, "callbackUrl") = Precedence("callbackUrl", "CALLBACK_URL", Undef)
    /\ Get(config, "useTest") = Precedence("useTest", "USE_TEST", Undef)
    /\ Get(config, "merchantId") = Precedence("merchantId", "MERCHANT_ID", Undef)
    /\ Get(config, "apiVersion") = Precedence("apiVersion", "API_VERSION", Str("1.0"))
    /\ Get(config, "currency") = Precedence("currency", "", Str("CZK"))
    /\ Get(config, "language") = Precedence("language", "", Str("cs"))
    /\ Get(config, "country") = Precedence("country", "", Str("CZ"))
    /\ Get(config, "gateUrl") =
         Str(ToStr(Precedence("gateUrl", "GATEWAY_URL", Str("https://payments.comgate.cz")))
             \o "/v" \o ToStr(Precedence("apiVersion", "API_VERSION", Str("1.0"))))

(***************************************************************************)
(* Claims about the operations (Spec).                                     *)
(***************************************************************************)
\* C3: every invocation of a public operation ends resolved, or rejected with
\* an APIError or a PaymentError; none throws, none rejects with another error.
C3_OnlyThreeOutcomes ==
  impl = "part_000" =>
    \/ last.out.kind \in {"none", "resolved"}
    \/ last.out.kind = "rejected" /\ last.out.err.name \in {"APIError", "PaymentError"}

\* the text the claim gives to a field value
Stringified(v) == IF Nullish(v) THEN "" ELSE ToStr(v)

\* C4: every form field sent is the string of the value given for it: "true"
\* and "false" for booleans, decimal text for numbers, 0 included, and "" for
\* null and undefined.
C4_FormFieldsAreStringified ==
  impl = "part_000" =>
    \A i \in 1..Len(log) :
      ~log[i].threw =>
        log[i].req.form =
          {<<"type", Str("json")>>}
            \cup {<<k, Str(Stringified(log[i].data[k]))>> : k \in DOMAIN log[i].data}

\* C9: once the constructor has returned, this.config keeps the value the
\* constructor gave it, through every invocation and every outcome.
C9_ConfigNeverChanges ==
  phase = "ready" => config = Construct(impl, options, env).config

\* a refund and another invocation have run, and the latest call to end was
\* rejected with a PaymentError
C9_Witness ==
  /\ phase = "ready"
  /\ Len(log) >= 2
  /\ \E i \in 1..Len(log) : log[i].op = "refund" /\ ~log[i].threw
  /\ pending = {}
  /\ last.out.kind = "rejected"
  /\ last.out.err.name = "PaymentError"
  /\ config = ConstructorMain(options, env).config

\* C10: two invocations of one operation with the same transaction id and the
\* same params object send the same request: same URL, same form fields.
C10_SameInputsSameRequest ==
  \A i, j \in 1..Len(log) :
    (/\ i < j
     /\ log[i].op = log[j].op
     /\ log[i].transId = log[j].transId
     /\ log[i].arg = log[j].arg
     /\ ~log[i].threw /\ ~log[j].threw)
      => log[i].req = log[j].req

====
